---- MODULE Spec2Model ----
(***************************************************************************)
(* A model of src/modeling.py: TILDE (training_step), TILDEv2 (encode,     *)
(* forward, mask_sep, compute_tok_score_cart) and TILDEv2Trainer._save.    *)
(* Tensors are sequences (1-based here; the source and the claims count    *)
(* positions from 0, so position p of the source is element p + 1).        *)
(***************************************************************************)
EXTENDS Integers, Sequences, FiniteSets, TLC

\* ------------------------------------------------------------------ bounds
MaxCalls == 4        \* calls of forward / mask_sep on one input
QryLen == 3          \* LQ, padded query length
MaxRankQ == 2        \* query examples in the ranking-label runs
MaxRankD == 8        \* document examples in the ranking-label runs

VocabSize == 3       \* tokenizer.vocab_size in the training_step runs
NumProcs == 3        \* worker processes running _save

DefaultGroupSize == 8   \* train_group_size=8, the constructor's default

Tokens == {1, 2}                      \* token ids drawn for the tensors
DocPositions == 1 .. 2                \* LD, padded document length
ProjValues == {-1, 1, 2}              \* tok_proj outputs before the relu
CartWeights == {1, 2}                 \* doc_reps handed to compute_tok_score_cart
BatchShapes == {<<1, 1>>, <<1, 2>>}   \* (Q, D) of forward's inputs, D = tgs * Q
CartShapes == {<<1, 1>>, <<1, 2>>, <<2, 1>>}   \* (Q, D) of the score function's inputs
MaskRows == {1, 2}                    \* rows of a mask handed to mask_sep
GroupSizes == {1, 2}                  \* train_group_size besides the default
BatchSizes == {1, 2}                  \* examples in a training_step batch

\* ------------------------------------------------------------------ state
VARIABLES
  qry_input_ids,       \* qry_in['input_ids'], Q x LQ
  qry_attention_mask,  \* qry_in['attention_mask'], Q x LQ, the caller's tensor
  doc_input_ids,       \* doc_in['input_ids'], D x LD
  doc_proj,            \* tok_proj(bert(doc_in).last_hidden_state), D x LD
  train_group_size,    \* self.train_group_size
  positive,            \* index of the true positive document (dataset's, unread)
  calls,               \* calls made so far on this input
  orig_mask,           \* the attention mask as the caller built it
  prev_mask,           \* the attention mask when the last call started
  tok_scores,          \* last value of tok_scores / scores, Q x D
  labels,              \* last value of labels
  err,                 \* "none", or the exception the last call raised
  \* TILDEv2.encode
  features,            \* the keys of **features of the last call of encode
  enc_state,           \* "idle", "AssertionError" or "returned"
  bert_called,         \* whether that call reached self.bert(**features)
  tok_weights,         \* what it returned
  \* TILDE.training_step
  stop_ids,            \* get_stop_ids(self.tokenizer)
  num_valid_tok,       \* self.num_valid_tok
  yqs, yds,            \* the label vectors of the batch, passage and query side
  loop_i,              \* i, the examples the loop has done
  pos_ids_plus,        \* <<passage_pos_ids_plus, query_pos_ids_plus>> of the last one
  pos_ids_minus,       \* <<passage_pos_ids_minus, query_pos_ids_minus>> of the last one
  pos_sums,            \* <<sum(log(passage_pos_probs)), sum(log(query_pos_probs))>>
  neg_sums,            \* <<sum(log(1-passage_neg_probs)), sum(log(1-query_neg_probs))>>
  passage_pos_loss,
  query_pos_loss,
  loss,                \* <<numerator, denominator>> once computed, else <<>>
  \* TILDEv2Trainer._save, one run per worker process
  save_pc,             \* where each worker is in _save
  tokenizer_set,       \* self.tokenizer is not None
  dir_made,            \* the workers that ran os.makedirs
  written              \* <<worker, artifact>> for every write to output_dir

v2vars == <<qry_input_ids, qry_attention_mask, doc_input_ids, doc_proj,
            train_group_size, positive, calls, orig_mask, prev_mask,
            tok_scores, labels, err>>

encvars == <<features, enc_state, bert_called, tok_weights>>

tildevars == <<stop_ids, num_valid_tok, yqs, yds, loop_i, pos_ids_plus, pos_ids_minus,
               pos_sums, neg_sums, passage_pos_loss, query_pos_loss, loss>>

savevars == <<save_pc, tokenizer_set, dir_made, written>>

vars == <<v2vars, encvars, tildevars, savevars>>

\* ---------------------------------------------------------- tensor helpers
RECURSIVE SumSeq(_)
SumSeq(s) == IF s = <<>> THEN 0 ELSE s[1] + SumSeq(Tail(s))

RECURSIVE MaxSeq(_)
MaxSeq(s) ==
  IF Len(s) = 1 THEN s[1]
  ELSE LET m == MaxSeq(Tail(s)) IN IF s[1] >= m THEN s[1] ELSE m

\* tensor.view(-1, 1) of a 2-d (x 1) tensor: rows laid out one after another
RECURSIVE Flatten(_)
Flatten(t) == IF t = <<>> THEN <<>> ELSE t[1] \o Flatten(Tail(t))

\* torch.relu, elementwise
ReluIdentity(t) == t
Relu(t) == [d \in 1 .. Len(t) |-> [j \in 1 .. Len(t[d]) |->
              IF t[d][j] > 0 THEN t[d][j] ELSE 0]]

\* torch.ones_like(qry_input_ids)
OnesLike(t) == [q \in 1 .. Len(t) |-> [i \in 1 .. Len(t[q]) |-> 1]]

\* ---------------------------------------------------------------- mask_sep
\* sep_pos = qry_attention_mask.sum(1) - 1, a 0-based index into the row
SepPosNoMinus(row) == SumSeq(row)
SepPos(row) == SumSeq(row) - 1

\* scatter_ accepts an index only inside the dimension
InRange(row, pos) == 0 <= pos /\ pos < Len(row)

\* one row of scatter_(1, sep_pos, zeros)
ScatterRow(row, pos) == [p \in 1 .. Len(row) |-> IF p = pos + 1 THEN 0 ELSE row[p]]

ScatterOK(mask) == \A r \in 1 .. Len(mask) : InRange(mask[r], SepPos(mask[r]))

\* The tensors mask_sep can leave behind. With every index in range each row
\* is written once. With one out of range scatter_ raises; the rows it wrote
\* before raising depend on the kernel's order, so any set of the in-range
\* rows may have been written, and the out-of-range row is not written.
MaskSepNoWrite(mask) == {mask}
MaskSepOutcomes(mask) ==
  IF ScatterOK(mask)
  THEN {[r \in 1 .. Len(mask) |-> ScatterRow(mask[r], SepPos(mask[r]))]}
  ELSE {[r \in 1 .. Len(mask) |->
           IF r \in S THEN ScatterRow(mask[r], SepPos(mask[r])) ELSE mask[r]] :
        S \in SUBSET {r \in 1 .. Len(mask) : InRange(mask[r], SepPos(mask[r]))}}

\* -------------------------------------------------- compute_tok_score_cart
\* exact_match[q][i][d][j] = float(doc_input_ids[d][j] == qry_input_ids[q][i])
ExactMatch(qids, dids) ==
  [q \in 1 .. Len(qids) |-> [i \in 1 .. Len(qids[q]) |->
    [d \in 1 .. Len(dids) |-> [j \in 1 .. Len(dids[d]) |->
      IF dids[d][j] = qids[q][i] THEN 1 ELSE 0]]]]

\* matmul of the flattened (Q*LQ) x 1 and 1 x (D*LD) tensors, then
\* view(Q, LQ, D, LD): element [q][i][d][j] is row q*LQ+i, column d*LD+j
ScoresNoMasking(qry_reps, doc_reps) ==
  LET qf == Flatten(qry_reps)
      df == Flatten(doc_reps)
      LQ == Len(qry_reps[1])
      LD == Len(doc_reps[1])
  IN [q \in 1 .. Len(qry_reps) |-> [i \in 1 .. LQ |->
       [d \in 1 .. Len(doc_reps) |-> [j \in 1 .. LD |->
          qf[(q - 1) * LQ + i] * df[(d - 1) * LD + j]]]]]

\* .max(dim=3): the pooling over document positions
PoolSum(s) == SumSeq(s)
Pool(s) == MaxSeq(s)

\* the slice [:, 1:] keeps the positions from this one on (1-based: 2)
SlicePositions(LQ) == 2 .. LQ

RECURSIVE SumOver(_, _)
SumOver(f, S) ==
  IF S = {} THEN 0
  ELSE LET x == CHOOSE y \in S : TRUE IN f[x] + SumOver(f, S \ {x})

compute_tok_score_cart(doc_reps, doc_ids, qry_reps, qry_ids, qry_mask) ==
  LET em == ExactMatch(qry_ids, doc_ids)
      snm == ScoresNoMasking(qry_reps, doc_reps)
      LQ == Len(qry_ids[1])
      \* scores[q][i][d] = max_j (scores_no_masking * exact_match)[q][i][d][j]
      scores == [q \in 1 .. Len(qry_ids) |-> [i \in 1 .. LQ |->
                  [d \in 1 .. Len(doc_ids) |->
                     Pool([j \in 1 .. Len(doc_ids[d]) |->
                             snm[q][i][d][j] * em[q][i][d][j]])]]]
  IN [q \in 1 .. Len(qry_ids) |-> [d \in 1 .. Len(doc_ids) |->
        SumOver([i \in 1 .. LQ |-> scores[q][i][d] * qry_mask[q][i]],
                SlicePositions(LQ))]]

\* --------------------------------------------------------- TILDEv2.forward
\* labels = arange(scores.size(0)) * train_group_size
LabelsOneBased(nq, tgs) == [q \in 1 .. nq |-> q * tgs]
LabelsNoOffset(nq, tgs) == [q \in 1 .. nq |-> q - 1]
Labels(nq, tgs) == [q \in 1 .. nq |-> (q - 1) * tgs]

\* cross_entropy accepts a target only if it is a column of the scores
TargetsInRange(l, ncols) == \A q \in 1 .. Len(l) : 0 <= l[q] /\ l[q] < ncols

Forward ==
  /\ calls < MaxCalls
  /\ LET doc_reps == Relu(doc_proj)
         ok == ScatterOK(qry_attention_mask)
     IN \E m \in MaskSepOutcomes(qry_attention_mask) :
          /\ qry_attention_mask' = m
          /\ prev_mask' = qry_attention_mask
          /\ calls' = calls + 1
          /\ IF ~ok
             THEN /\ err' = "IndexError: scatter_ index out of bounds"
                  /\ tok_scores' = <<>>
                  /\ labels' = <<>>
             ELSE LET s == compute_tok_score_cart(doc_reps, doc_input_ids,
                              OnesLike(qry_input_ids), qry_input_ids, m)
                      l == Labels(Len(s), train_group_size)
                  IN /\ tok_scores' = s
                     /\ labels' = l
                     /\ err' = IF TargetsInRange(l, Len(doc_input_ids))
                               THEN "none"
                               ELSE "IndexError: target out of bounds"
  /\ UNCHANGED <<qry_input_ids, doc_input_ids, doc_proj, train_group_size,
                 positive, orig_mask>>
  /\ UNCHANGED <<encvars, tildevars, savevars>>

\* compute_tok_score_cart called on its own, as forward calls it: the query
\* weights are ones, doc_proj holds the doc_reps argument
CartCall ==
  /\ calls = 0
  /\ calls' = 1
  /\ prev_mask' = qry_attention_mask
  /\ tok_scores' = compute_tok_score_cart(doc_proj, doc_input_ids,
                      OnesLike(qry_input_ids), qry_input_ids, qry_attention_mask)
  /\ UNCHANGED <<qry_input_ids, qry_attention_mask, doc_input_ids, doc_proj,
                 train_group_size, positive, orig_mask, labels, err>>
  /\ UNCHANGED <<encvars, tildevars, savevars>>

\* mask_sep called on its own
MaskSepCall ==
  /\ calls < MaxCalls
  /\ \E m \in MaskSepOutcomes(qry_attention_mask) : qry_attention_mask' = m
  /\ prev_mask' = qry_attention_mask
  /\ calls' = calls + 1
  /\ err' = IF ScatterOK(qry_attention_mask) THEN "none"
            ELSE "IndexError: scatter_ index out of bounds"
  /\ UNCHANGED <<qry_input_ids, doc_input_ids, doc_proj, train_group_size,
                 positive, orig_mask, tok_scores, labels>>
  /\ UNCHANGED <<encvars, tildevars, savevars>>

\* ---------------------------------------------------------- TILDEv2.encode
FeatureKeys == {"input_ids", "attention_mask", "token_type_ids", "position_ids"}

\* all([x in features for x in ['input_ids', 'attention_mask', 'token_type_ids']])
AnyPresent(K) == \E x \in {"input_ids", "attention_mask", "token_type_ids"} : x \in K
AllPresent(K) == \A x \in {"input_ids", "attention_mask", "token_type_ids"} : x \in K

Encode ==
  /\ \E K \in SUBSET FeatureKeys :
       /\ features' = K
       /\ IF ~AllPresent(K)
          THEN /\ enc_state' = "AssertionError"
               /\ bert_called' = FALSE
               /\ tok_weights' = <<>>
          ELSE /\ enc_state' = "returned"
               /\ bert_called' = TRUE
               /\ tok_weights' = Relu(doc_proj)
  /\ UNCHANGED <<v2vars, tildevars, savevars>>

\* ----------------------------------------------------- TILDE.training_step
Vocab == 0 .. VocabSize - 1

\* logits[:, 0] of the backbone, a black box: example e's logit for entry v
\* is one of -1, 0, 1, fixed per side
passage_outputs(e, v) == ((e + v) % 3) - 1
query_outputs(e, v) == ((e + 2 * v + 1) % 3) - 1

\* 1000 * log(sigmoid(x)), rounded, for the logits above
LogSigmoid(x) == CASE x = -1 -> -1313 [] x = 0 -> -693 [] x = 1 -> -313

\* torch.log(prob) and torch.log(1 - prob) with prob = sigmoid(x)
LogProb(x) == LogSigmoid(x)
LogOneMinusProb(x) == LogSigmoid(0 - x)

\* torch.where(y == value)[0]
WhereAll(y, value) == {v \in Vocab : TRUE}
Where(y, value) == {v \in Vocab : y[v] = value}

\* one pass of the loop body, for example i = loop_i (0-based)
TrainingStepLoop ==
  /\ loop_i < Len(yqs)
  /\ loss = <<>>
  /\ LET e == loop_i + 1
         pp == Where(yqs[e], 1)
         pm == Where(yqs[e], 0)
         qp == Where(yds[e], 1)
         qm == Where(yds[e], 0)
         pps == SumOver([v \in Vocab |-> LogProb(passage_outputs(loop_i, v))], pp)
         pns == SumOver([v \in Vocab |-> LogOneMinusProb(passage_outputs(loop_i, v))], pm)
         qps == SumOver([v \in Vocab |-> LogProb(query_outputs(loop_i, v))], qp)
         qns == SumOver([v \in Vocab |-> LogOneMinusProb(query_outputs(loop_i, v))], qm)
     IN /\ pos_ids_plus' = <<pp, qp>>
        /\ pos_ids_minus' = <<pm, qm>>
        /\ pos_sums' = <<pps, qps>>
        /\ neg_sums' = <<pns, qns>>
        /\ passage_pos_loss' = passage_pos_loss - (pps + pns)
        /\ query_pos_loss' = query_pos_loss - (qps + qns)
  /\ loop_i' = loop_i + 1
  /\ UNCHANGED <<stop_ids, num_valid_tok, yqs, yds, loss>>
  /\ UNCHANGED <<v2vars, encvars, savevars>>

\* loss = (passage_pos_loss + query_pos_loss) / (self.num_valid_tok * 2)
TrainingStepLoss ==
  /\ loop_i = Len(yqs)
  /\ loss = <<>>
  /\ loss' = <<passage_pos_loss + query_pos_loss, num_valid_tok * 2>>
  /\ UNCHANGED <<stop_ids, num_valid_tok, yqs, yds, loop_i, pos_ids_plus, pos_ids_minus,
                 pos_sums, neg_sums, passage_pos_loss, query_pos_loss>>
  /\ UNCHANGED <<v2vars, encvars, savevars>>

\* ---------------------------------------------------- TILDEv2Trainer._save
Procs == 0 .. NumProcs - 1

\* self.is_world_process_zero()
is_world_process_zero(w) == w = 0

\* os.makedirs(output_dir, exist_ok=True)
SaveMakedirs(w) ==
  /\ save_pc[w] = "start"
  /\ dir_made' = dir_made \cup {w}
  /\ save_pc' = [save_pc EXCEPT ![w] = "model"]
  /\ UNCHANGED <<tokenizer_set, written>>
  /\ UNCHANGED <<v2vars, encvars, tildevars>>

\* self.model.save_pretrained(output_dir)
SaveModel(w) ==
  /\ save_pc[w] = "model"
  /\ written' = written \cup {<<w, "model">>}
  /\ save_pc' = [save_pc EXCEPT ![w] = "tokenizer"]
  /\ UNCHANGED <<tokenizer_set, dir_made>>
  /\ UNCHANGED <<v2vars, encvars, tildevars>>

\* if self.tokenizer is not None and self.is_world_process_zero(): ...
SaveTokenizer(w) ==
  /\ save_pc[w] = "tokenizer"
  /\ written' = IF tokenizer_set /\ is_world_process_zero(w)
                THEN written \cup {<<w, "tokenizer">>}
                ELSE written
  /\ save_pc' = [save_pc EXCEPT ![w] = "args"]
  /\ UNCHANGED <<tokenizer_set, dir_made>>
  /\ UNCHANGED <<v2vars, encvars, tildevars>>

\* torch.save(self.args, os.path.join(output_dir, "training_args.bin"))
SaveArgs(w) ==
  /\ save_pc[w] = "args"
  /\ written' = written \cup {<<w, "training_args.bin">>}
  /\ save_pc' = [save_pc EXCEPT ![w] = "done"]
  /\ UNCHANGED <<tokenizer_set, dir_made>>
  /\ UNCHANGED <<v2vars, encvars, tildevars>>

\* ------------------------------------------------------------ input spaces
PrefixMask(n, len) == [p \in 1 .. len |-> IF p <= n THEN 1 ELSE 0]

\* a tokenized query row: the leading classification token, then tokens;
\* its mask attends to the first n >= 2 positions (the last is the separator)
QueryIds == {r \in [1 .. QryLen -> Tokens] : r[1] = 1}
QueryMasks == {PrefixMask(n, QryLen) : n \in 2 .. QryLen}
DocIds == [DocPositions -> Tokens]
DocProjs == [DocPositions -> ProjValues]
AnyMasks == [1 .. QryLen -> {0, 1}]

EncIdle ==
  /\ features = {}
  /\ enc_state = "idle"
  /\ bert_called = FALSE
  /\ tok_weights = <<>>

TildeFresh ==
  /\ loop_i = 0
  /\ pos_ids_plus = <<>>
  /\ pos_ids_minus = <<>>
  /\ pos_sums = <<>>
  /\ neg_sums = <<>>
  /\ passage_pos_loss = 0
  /\ query_pos_loss = 0
  /\ loss = <<>>

TildeIdle ==
  /\ stop_ids = {}
  /\ num_valid_tok = VocabSize
  /\ yqs = <<>>
  /\ yds = <<>>
  /\ TildeFresh

SaveIdle ==
  /\ save_pc = [w \in Procs |-> "done"]
  /\ tokenizer_set = FALSE
  /\ dir_made = {}
  /\ written = {}

V2Idle ==
  /\ qry_input_ids = <<>>
  /\ qry_attention_mask = <<>>
  /\ doc_input_ids = <<>>
  /\ doc_proj = <<>>
  /\ train_group_size = DefaultGroupSize
  /\ positive = 0
  /\ calls = 0
  /\ orig_mask = <<>>
  /\ prev_mask = <<>>
  /\ tok_scores = <<>>
  /\ labels = <<>>
  /\ err = "none"

V2Fresh ==
  /\ EncIdle /\ TildeIdle /\ SaveIdle
  /\ calls = 0
  /\ orig_mask = qry_attention_mask
  /\ prev_mask = qry_attention_mask
  /\ tok_scores = <<>>
  /\ labels = <<>>
  /\ err = "none"

\* forward on tokenized inputs that keep the batch contract D = tgs * Q
Init ==
  /\ \E sh \in BatchShapes :
       /\ qry_input_ids \in [1 .. sh[1] -> QueryIds]
       /\ qry_attention_mask \in [1 .. sh[1] -> QueryMasks]
       /\ doc_input_ids \in [1 .. sh[2] -> DocIds]
       /\ doc_proj \in [1 .. sh[2] -> DocProjs]
       /\ train_group_size = sh[2] \div sh[1]
  /\ positive = 0
  /\ V2Fresh

Next == Forward

Spec == Init /\ [][Next]_vars

\* compute_tok_score_cart on any 0/1 mask
InitCart ==
  /\ \E sh \in CartShapes :
       /\ qry_input_ids \in [1 .. sh[1] -> QueryIds]
       /\ qry_attention_mask \in [1 .. sh[1] -> AnyMasks]
       /\ doc_input_ids \in [1 .. sh[2] -> DocIds]
       /\ doc_proj \in [1 .. sh[2] -> [DocPositions -> CartWeights]]
  /\ train_group_size = DefaultGroupSize
  /\ positive = 0
  /\ V2Fresh

NextCart == CartCall

SpecCart == InitCart /\ [][NextCart]_vars

\* mask_sep on any 0/1 mask whose rows attend to something
InitMask ==
  /\ \E n \in MaskRows :
       qry_attention_mask \in [1 .. n -> {r \in AnyMasks : SumSeq(r) >= 1}]
  /\ qry_input_ids = [r \in 1 .. Len(qry_attention_mask) |-> [p \in 1 .. QryLen |-> 1]]
  /\ doc_input_ids = <<>>
  /\ doc_proj = <<>>
  /\ train_group_size = DefaultGroupSize
  /\ positive = 0
  /\ V2Fresh

NextMask == MaskSepCall

SpecMask == InitMask /\ [][NextMask]_vars

\* forward on Q queries and D documents of any sizes, each query the same
\* fully attended row and each document the same tokens with weight 1
InitRank ==
  /\ \E nq \in 1 .. MaxRankQ, nd \in 1 .. MaxRankD, ids \in DocIds :
       /\ qry_input_ids = [q \in 1 .. nq |-> [p \in 1 .. QryLen |-> IF p = 1 THEN 1 ELSE 2]]
       /\ qry_attention_mask = [q \in 1 .. nq |-> PrefixMask(QryLen, QryLen)]
       /\ doc_input_ids = [d \in 1 .. nd |-> ids]
       /\ doc_proj = [d \in 1 .. nd |-> [j \in DocPositions |-> 1]]
       /\ positive \in 0 .. nd - 1
  /\ train_group_size \in GroupSizes \cup {DefaultGroupSize}
  /\ V2Fresh

NextRank == Forward

SpecRank == InitRank /\ [][NextRank]_vars

\* encode on one or two documents, with any set of feature keys
InitEncode ==
  /\ \E nd \in 1 .. 2 :
       /\ doc_input_ids \in [1 .. nd -> DocIds]
       /\ doc_proj \in [1 .. nd -> DocProjs]
  /\ qry_input_ids = <<>>
  /\ qry_attention_mask = <<>>
  /\ train_group_size = DefaultGroupSize
  /\ positive = 0
  /\ calls = 0
  /\ orig_mask = <<>>
  /\ prev_mask = <<>>
  /\ tok_scores = <<>>
  /\ labels = <<>>
  /\ err = "none"
  /\ EncIdle /\ TildeIdle /\ SaveIdle

NextEncode == Encode

SpecEncode == InitEncode /\ [][NextEncode]_vars

\* training_step on a batch of 0/1 label vectors; the stop ids are a set of
\* at most one vocabulary entry
StopSets == {S \in SUBSET Vocab : Cardinality(S) <= 1}
LabelVectors == [Vocab -> {0, 1}]

InitTilde ==
  /\ stop_ids \in StopSets
  /\ num_valid_tok = VocabSize - Cardinality(stop_ids)
  /\ \E n \in BatchSizes :
       /\ yqs \in [1 .. n -> LabelVectors]
       /\ yds \in [1 .. n -> LabelVectors]
  /\ TildeFresh
  /\ V2Idle /\ EncIdle /\ SaveIdle

NextTilde == TrainingStepLoop \/ TrainingStepLoss

SpecTilde == InitTilde /\ [][NextTilde]_vars

\* every worker process runs _save once
InitSave ==
  /\ save_pc = [w \in Procs |-> "start"]
  /\ tokenizer_set \in BOOLEAN
  /\ dir_made = {}
  /\ written = {}
  /\ V2Idle /\ EncIdle /\ TildeIdle

NextSave ==
  \E w \in Procs : SaveMakedirs(w) \/ SaveModel(w) \/ SaveTokenizer(w) \/ SaveArgs(w)

SpecSave == InitSave /\ [][NextSave]_vars

\* ========================================================= claims, TILDEv2
\* what the claims say, written without the model's operators
RECURSIVE C_Sum(_, _, _)
C_Sum(f, lo, hi) == IF lo > hi THEN 0 ELSE f[lo] + C_Sum(f, lo + 1, hi)

\* the largest of (doc weight where the tokens match, else 0) over the positions
C_Best(w, qid, dids) ==
  LET vals == {IF dids[j] = qid THEN w[j] ELSE 0 : j \in 1 .. Len(dids)}
  IN CHOOSE m \in vals : \A v \in vals : v <= m

C_Score(mask, qids, dids, w) ==
  C_Sum([i \in 1 .. Len(qids) |-> mask[i] * C_Best(w, qids[i], dids)], 2, Len(qids))

NQ == Len(qry_input_ids)
ND == Len(doc_input_ids)

\* C1: the score of query q and document d is the sum over the query positions
\* i >= 1 of mask[q][i] times the largest weight of a document position holding
\* the same token (0 when none does)
C1_ScoreFormula ==
  calls = 1 =>
    \A q \in 1 .. NQ : \A d \in 1 .. ND :
      tok_scores[q][d] =
        C_Score(qry_attention_mask[q], qry_input_ids[q], doc_input_ids[d], doc_proj[d])

\* a query token that two positions of one document hold, with different
\* weights, next to a matching query position whose mask is 0
C1_Witness ==
  /\ calls = 1
  /\ \E q \in 1 .. NQ : \E d \in 1 .. ND : \E i, k \in 2 .. QryLen :
       /\ i # k
       /\ qry_attention_mask[q][i] = 1
       /\ qry_attention_mask[q][k] = 0
       /\ \A j \in DocPositions : doc_input_ids[d][j] = qry_input_ids[q][i]
       /\ qry_input_ids[q][k] = qry_input_ids[q][i]
       /\ doc_proj[d][1] # doc_proj[d][2]
       /\ tok_scores[q][d] = 2

\* C2 as stated: every call of mask_sep returns, having zeroed position
\* sum - 1 of every row and nothing else, whatever the 0/1 rows are
C2_Original ==
  calls >= 1 =>
    /\ err = "none"
    /\ \A r \in 1 .. Len(prev_mask) : \A p \in 1 .. QryLen :
         qry_attention_mask[r][p] =
           IF p - 1 = C_Sum(prev_mask[r], 1, QryLen) - 1 THEN 0 ELSE prev_mask[r][p]

\* C2, amended: when every row attends to at least one position, mask_sep
\* zeroes position sum - 1 of every row and nothing else; when some row
\* attends to none (index -1), scatter_ raises and that row is left as it was
C2_MaskSepRows ==
  calls >= 1 =>
    IF \A r \in 1 .. Len(prev_mask) : C_Sum(prev_mask[r], 1, QryLen) >= 1
    THEN /\ err = "none"
         /\ \A r \in 1 .. Len(prev_mask) : \A p \in 1 .. QryLen :
              qry_attention_mask[r][p] =
                IF p - 1 = C_Sum(prev_mask[r], 1, QryLen) - 1 THEN 0 ELSE prev_mask[r][p]
    ELSE /\ err # "none"
         /\ \A r \in 1 .. Len(prev_mask) :
              C_Sum(prev_mask[r], 1, QryLen) = 0 => qry_attention_mask[r] = prev_mask[r]

\* two rows, one of them not a prefix of ones, each losing its position sum - 1
C2_Witness ==
  /\ calls >= 1
  /\ err = "none"
  /\ Len(prev_mask) = 2
  /\ prev_mask[1] # prev_mask[2]
  /\ \E r \in 1 .. 2 : prev_mask[r][1] = 0 /\ prev_mask[r][2] = 1
  /\ \E r \in 1 .. 2 : qry_attention_mask[r] # prev_mask[r]

ForwardReturned == calls >= 1 /\ err = "none"

\* C3 as stated: one query, a group of 8 documents, the true positive at
\* index 3: the labels are [3]
C3_Original ==
  (ForwardReturned /\ NQ = 1 /\ ND = 8 /\ train_group_size = 8 /\ positive = 3)
    => labels = <<3>>

\* C3, amended: in that scenario the labels are [0], wherever the true
\* positive is, and the loss accepts them
C3_LabelsZero ==
  (calls >= 1 /\ labels # <<>> /\ NQ = 1 /\ ND = 8 /\ train_group_size = 8)
    => (labels = <<0>> /\ err = "none")

\* forward has returned in the scenario, the true positive at index 3
C3_Witness ==
  ForwardReturned /\ NQ = 1 /\ ND = 8 /\ train_group_size = 8 /\ positive = 3

\* C6: forward's score matrix has one row per query example and one column
\* per document example, and no cell is negative
C6_ShapeNonNegative ==
  ForwardReturned =>
    /\ Len(tok_scores) = NQ
    /\ \A q \in 1 .. NQ :
         /\ Len(tok_scores[q]) = ND
         /\ \A d \in 1 .. ND : tok_scores[q][d] >= 0

\* two documents, one whose matching tokens all project below zero
C6_Witness ==
  /\ ForwardReturned
  /\ ND = 2
  /\ \E d \in 1 .. ND : \A j \in DocPositions :
       doc_proj[d][j] < 0 /\ doc_input_ids[d][j] = qry_input_ids[1][2]
  /\ qry_attention_mask[1][2] = 1
  /\ \E d \in 1 .. ND : tok_scores[1][d] > 0

\* C9: the label of query q is q * train_group_size; when D = tgs * Q every
\* label is a column of the scores and the first slot of its group; when
\* D < tgs * (Q - 1) + 1 some label is no column and the loss raises
C9_LabelsInRange ==
  (calls >= 1 /\ labels # <<>>) =>
    /\ Len(labels) = NQ
    /\ \A q \in 1 .. NQ : labels[q] = (q - 1) * train_group_size
    /\ ND = train_group_size * NQ =>
         /\ err = "none"
         /\ \A q \in 1 .. NQ :
              /\ 0 <= labels[q] /\ labels[q] < ND
              /\ labels[q] \div train_group_size = q - 1
              /\ labels[q] % train_group_size = 0
    /\ ND < train_group_size * (NQ - 1) + 1 =>
         /\ err # "none"
         /\ \E q \in 1 .. NQ : labels[q] >= ND

C9_Witness ==
  /\ ForwardReturned
  /\ NQ = 2
  /\ train_group_size = 2
  /\ ND = 4
  /\ labels = <<0, 2>>

\* C10: a row that was a prefix of n ones is, after k <= n calls of forward
\* on the same input, a prefix of n - k ones; the separator's position is 0 in
\* the caller's tensor from the first call on, and the score counts only the
\* query positions still attended
C10_PrefixShrinks ==
  \A r \in 1 .. NQ :
    LET n == C_Sum(orig_mask[r], 1, QryLen)
    IN (\A x \in 1 .. NQ : calls <= C_Sum(orig_mask[x], 1, QryLen)) =>
         /\ qry_attention_mask[r] = [p \in 1 .. QryLen |-> IF p <= n - calls THEN 1 ELSE 0]
         /\ calls >= 1 => qry_attention_mask[r][n] = 0
         /\ calls >= 1 =>
              /\ err = "none"
              /\ \A d \in 1 .. ND :
                   tok_scores[r][d] =
                     C_Sum([i \in 1 .. QryLen |->
                              C_Best([j \in DocPositions |->
                                        IF doc_proj[d][j] > 0 THEN doc_proj[d][j] ELSE 0],
                                     qry_input_ids[r][i], doc_input_ids[d])],
                           2, n - calls)

\* the second call on a fully attended row: a real query token has left the score
C10_Witness ==
  /\ calls = 2
  /\ orig_mask[1] = [p \in 1 .. QryLen |-> 1]
  /\ prev_mask[1][QryLen - 1] = 1
  /\ qry_attention_mask[1][QryLen - 1] = 0
  /\ \E d \in 1 .. ND : \E j \in DocPositions :
       doc_input_ids[d][j] = qry_input_ids[1][QryLen - 1] /\ doc_proj[d][j] > 0

\* ============================================== claims, encode / TILDE / _save
\* C8: encode raises an assertion error, without calling the backbone, exactly
\* when input_ids, attention_mask or token_type_ids is missing from features
C8_AssertIffMissing ==
  enc_state # "idle" =>
    LET missing == \/ "input_ids" \notin features
                   \/ "attention_mask" \notin features
                   \/ "token_type_ids" \notin features
    IN /\ missing => (enc_state = "AssertionError" /\ ~bert_called)
       /\ ~missing => (enc_state = "returned" /\ bert_called)

\* a call with two of the three keys
C8_Witness ==
  /\ features = {"attention_mask", "token_type_ids"}
  /\ enc_state = "AssertionError"
  /\ ~bert_called

\* C4 as stated: for 0/1 labels the index sets the loop sums over hold no stop
\* id, and together have num_valid_tok entries, per example and side
C4_Original ==
  loop_i >= 1 =>
    \A side \in 1 .. 2 :
      /\ (pos_ids_plus[side] \cup pos_ids_minus[side]) \cap stop_ids = {}
      /\ Cardinality(pos_ids_plus[side]) + Cardinality(pos_ids_minus[side]) = num_valid_tok

\* C5: per example and side the two index sets are disjoint, so no entry is in
\* both sums; all-ones labels make the negative sum 0 and all-zeros labels the
\* positive sum 0
C5_DisjointEmptySums ==
  loop_i >= 1 =>
    /\ \A side \in 1 .. 2 : pos_ids_plus[side] \cap pos_ids_minus[side] = {}
    /\ (\A v \in 0 .. VocabSize - 1 : yqs[loop_i][v] = 1) => neg_sums[1] = 0
    /\ (\A v \in 0 .. VocabSize - 1 : yqs[loop_i][v] = 0) => pos_sums[1] = 0
    /\ (\A v \in 0 .. VocabSize - 1 : yds[loop_i][v] = 1) => neg_sums[2] = 0
    /\ (\A v \in 0 .. VocabSize - 1 : yds[loop_i][v] = 0) => pos_sums[2] = 0

\* the second example of a batch: passage labels all ones, query labels all zeros
C5_Witness ==
  /\ loop_i = 2
  /\ \A v \in 0 .. VocabSize - 1 : yqs[2][v] = 1 /\ yds[2][v] = 0
  /\ neg_sums[1] = 0 /\ pos_sums[1] < 0
  /\ pos_sums[2] = 0 /\ neg_sums[2] < 0

\* C7 as stated: whatever _save writes to the output directory is written by
\* world process zero
C7_Original ==
  \A x \in written : x[1] = 0

====
